---- MODULE Spec2Model ----
(***************************************************************************)
(* Model of the on-chain aggregation and verification engine of wavey-api: *)
(*   services/multicall.py     batch_calls, _execute_multicall_batch       *)
(*   services/verify_gauge.py  verify_gauge, is_valid_contract             *)
(* Each component has its own initial predicate and next-state relation;   *)
(* a component that is not exercised stays at pc = "idle".                 *)
(***************************************************************************)
EXTENDS Integers, Sequences, FiniteSets, TLC

\* Longest input batch handed to batch_calls.
MaxCalls == 3

(***************************************************************************)
(* Python values                                                           *)
(***************************************************************************)
\* None, int, bool and checksummed-address values, tagged by their type.
None == [t |-> "None", v |-> 0]
IntVal(n) == [t |-> "int", v |-> n]
BoolVal(b) == [t |-> "bool", v |-> b]
\* "0x" + 40 hex digits in checksum form; v holds the 20 bytes.
AddrVal(bs) == [t |-> "address", v |-> bs]

Zeros(n) == [i \in 1..n |-> 0]

\* int.from_bytes(bs, byteorder='big')
RECURSIVE FromBytes(_)
FromBytes(bs) ==
    IF bs = <<>> THEN 0
    ELSE 256 * FromBytes(SubSeq(bs, 1, Len(bs) - 1)) + bs[Len(bs)]

\* bytes.ljust(width, b'\0'): pads on the RIGHT up to width.
LJust(bs, width) ==
    IF Len(bs) >= width THEN bs ELSE bs \o Zeros(width - Len(bs))

\* bs[-n:]
LastBytes(bs, n) ==
    IF Len(bs) <= n THEN bs ELSE SubSeq(bs, Len(bs) - n + 1, Len(bs))

(***************************************************************************)
(* Chain data used by the multicall component                              *)
(***************************************************************************)
\* 20-byte addresses with a non-zero first and last byte.
AddrBytes(hi, lo) == <<hi>> \o Zeros(18) \o <<lo>>
LP_ADDR == AddrBytes(170, 1)
FACTORY_ADDR == AddrBytes(187, 2)

\* One 32-byte ABI word.
UintWord(n) == Zeros(31) \o <<n>>
AddrWord(a) == Zeros(12) \o a

\* Outcome of one eth_call: a revert, or success with raw return data.
Revert == [ok |-> FALSE, data |-> <<>>]
Returns(bs) == [ok |-> TRUE, data |-> bs]

\* services/abis/gauge_abi.py: declared type of outputs[0].
OutputType(function_name) ==
    CASE function_name = "totalSupply" -> "uint256"
      [] function_name = "working_balances" -> "uint256"
      [] function_name = "balanceOf" -> "uint256"
      [] function_name = "factory" -> "address"
      [] function_name = "lp_token" -> "address"

FunctionNames == {"lp_token", "totalSupply", "factory"}
GAUGE == "0xGauge"
CallSpecs == [address : {GAUGE}, function_name : FunctionNames, args : {<<>>}]

\* The raw outcomes the chain may give each function of the gauge.
ChainStates ==
    [lp_token : {Revert, Returns(AddrWord(LP_ADDR))},
     totalSupply : {Revert, Returns(<<>>), Returns(<<7>>), Returns(UintWord(7))},
     factory : {Revert, Returns(<<>>), Returns(AddrWord(FACTORY_ADDR))}]

ChainOutcome(chain, call) ==
    CASE call.function_name = "lp_token" -> chain.lp_token
      [] call.function_name = "totalSupply" -> chain.totalSupply
      [] call.function_name = "factory" -> chain.factory
      [] call.function_name = "working_balances" -> chain.working_balances[call.args[1]]
      [] call.function_name = "balanceOf" -> chain.balanceOf[call.args[1]]

SeqsUpTo(S, n) == UNION {[1..k -> S] : k \in 0..n}

VARIABLES
    mc_pc,            \* position in batch_calls
    mc_calls,         \* the input list of calls
    mc_chain,         \* outcome of each underlying eth_call
    mc_net_ok,        \* FALSE: the aggregate RPC request itself errors
    mc_reliable,      \* reliable_indices
    mc_fragile,       \* potentially_failing_indices
    mc_all_results,   \* all_results
    mc_k,             \* loop index over potentially_failing_calls
    mc_returned       \* the list batch_calls returned

mcVars == <<mc_pc, mc_calls, mc_chain, mc_net_ok, mc_reliable, mc_fragile,
            mc_all_results, mc_k, mc_returned>>

VARIABLES
    vg_pc,                \* position in verify_gauge
    vg_request,           \* request.args: the 'a' and 'address' parameters
    vg_chain,             \* outcome of each RPC call verify_gauge can make
    vg_address,           \* address
    vg_factory_address,   \* factory_address
    vg_lp_token_address,  \* lp_token_address
    vg_is_lp_gauge,       \* is_lp_gauge
    vg_response,          \* response
    vg_calls,             \* the RPC calls issued so far, in order
    vg_run,               \* 1 during the first verification, 2 during the repeat
    vg_first              \* what the first verification returned and called

vgVars == <<vg_pc, vg_request, vg_chain, vg_address, vg_factory_address,
            vg_lp_token_address, vg_is_lp_gauge, vg_response, vg_calls,
            vg_run, vg_first>>

VARIABLES
    bs_pc,          \* position in get_boosts_batch
    bs_wallets,     \* wallet_addresses
    bs_gauge,       \* gauge_address
    bs_chain,       \* the gauge's answers
    bs_net_ok,      \* FALSE: the aggregate RPC request errors
    bs_result,      \* the dict get_boosts_batch returned
    bs_boost        \* what get_boost returned for the first wallet

bsVars == <<bs_pc, bs_wallets, bs_gauge, bs_chain, bs_net_ok, bs_result, bs_boost>>

VARIABLES
    gc_pc,           \* "ready" while the cache is exercised
    gc_cache,        \* _gauge_data_cache
    gc_timestamp,    \* _cache_timestamp
    gc_hits,         \* _cache_hits
    gc_misses,       \* _cache_misses
    gc_now,          \* time.time()
    gc_last,         \* what the last operation read, called and returned
    gc_ever_fetched, \* a non-empty payload has been stored at some time
    gc_hist          \* where the cached payload came from, the gets callers
                     \* made, and whether force_clear_cache was used

gcVars == <<gc_pc, gc_cache, gc_timestamp, gc_hits, gc_misses, gc_now, gc_last,
            gc_ever_fetched, gc_hist>>

VARIABLES
    gt_pc,        \* per request thread: position in _fetch_all_gauges
    gt_returned   \* per request thread: what _fetch_all_gauges returned

gtVars == <<gt_pc, gt_returned>>

vars == <<mcVars, vgVars, bsVars, gcVars, gtVars>>

\* Everything outside one component.
notMcVars == <<vgVars, bsVars, gcVars, gtVars>>
notVgVars == <<mcVars, bsVars, gcVars, gtVars>>
notBsVars == <<mcVars, vgVars, gcVars, gtVars>>
\* The cache fields are shared by the sequential and the threaded component.
notGcVars == <<mcVars, vgVars, bsVars>>

(***************************************************************************)
(* services/multicall.py                                                   *)
(***************************************************************************)
\* Faulty variant: no call is treated as fragile, so lp_token joins the aggregate batch.
IsFragile_AllBatched(call) == FALSE

\* multicall.py:43  calls whose function name is lp_token may fail.
IsFragile(call) == call.function_name = "lp_token"

\* multicall.py:42-48  the positions of calls satisfying / not satisfying IsFragile.
RECURSIVE IndicesFrom(_, _, _)
IndicesFrom(calls, i, fragile) ==
    IF i > Len(calls) THEN <<>>
    ELSE (IF IsFragile(calls[i]) = fragile THEN <<i>> ELSE <<>>)
         \o IndicesFrom(calls, i + 1, fragile)

ReliableIndices(calls) == IndicesFrom(calls, 1, FALSE)
FragileIndices(calls) == IndicesFrom(calls, 1, TRUE)

\* multicall.py:125-179  decode one sub-result by its declared output type.
DecodeResult(raw, output_type) ==
    IF raw = <<>> THEN None
    ELSE CASE output_type = "uint256" -> IntVal(FromBytes(raw))
           [] output_type = "address" -> AddrVal(LastBytes(LJust(raw, 40), 20))
           [] output_type = "bool" -> BoolVal(FromBytes(raw) # 0)

\* Multicall.aggregate: one eth_call that reverts when any sub-call reverts,
\* and errors when the node request fails.
AggregateFails(calls, chain, net_ok) ==
    \/ ~net_ok
    \/ \E i \in 1..Len(calls) : ~ChainOutcome(chain, calls[i]).ok

\* multicall.py:88-181  _execute_multicall_batch: raised, or one decoded
\* value per call.
ExecuteMulticallBatch(calls, chain, net_ok) ==
    IF AggregateFails(calls, chain, net_ok)
    THEN [raised |-> TRUE, results |-> <<>>]
    ELSE [raised |-> FALSE,
          results |-> [i \in 1..Len(calls) |->
              DecodeResult(ChainOutcome(chain, calls[i]).data,
                           OutputType(calls[i].function_name))]]

\* Faulty variant: result i is stored at position i of the input, not at reliable_indices[i].
MapBack_Unmapped(all_results, results, indices) ==
    [i \in 1..Len(all_results) |->
        IF i <= Len(results) THEN results[i] ELSE all_results[i]]

\* multicall.py:65-67  map results back to their original positions.
RECURSIVE MapBack(_, _, _)
MapBack(all_results, results, indices) ==
    IF results = <<>> THEN all_results
    ELSE MapBack([all_results EXCEPT ![indices[Len(results)]] = results[Len(results)]],
                 SubSeq(results, 1, Len(results) - 1), indices)

\* Faulty variant: the reliable batch runs without the try/except around it.
ReliableStep_NoCatch(all_results, calls, indices, chain, net_ok) ==
    LET reliable_calls == [i \in 1..Len(indices) |-> calls[indices[i]]]
        got == ExecuteMulticallBatch(reliable_calls, chain, net_ok)
    IN  IF reliable_calls = <<>> THEN [raised |-> FALSE, all_results |-> all_results]
        ELSE IF got.raised THEN [raised |-> TRUE, all_results |-> all_results]
        ELSE [raised |-> FALSE,
              all_results |-> MapBack(all_results, got.results, indices)]

\* multicall.py:61-70  the reliable batch inside try/except: the exception
\* is logged and the reliable positions keep None.
ReliableStep(all_results, calls, indices, chain, net_ok) ==
    LET reliable_calls == [i \in 1..Len(indices) |-> calls[indices[i]]]
        got == ExecuteMulticallBatch(reliable_calls, chain, net_ok)
    IN  IF reliable_calls = <<>> THEN [raised |-> FALSE, all_results |-> all_results]
        ELSE IF got.raised THEN [raised |-> FALSE, all_results |-> all_results]
        ELSE [raised |-> FALSE,
              all_results |-> MapBack(all_results, got.results, indices)]

\* multicall.py:75-77  contract.functions.<name>(*args).call(): the client
\* library decodes the first return word; a revert or empty data raises.
DirectCall(chain, call) ==
    LET out == ChainOutcome(chain, call)
    IN  IF ~out.ok \/ Len(out.data) < 32 THEN [raised |-> TRUE, value |-> None]
        ELSE [raised |-> FALSE,
              value |-> IF OutputType(call.function_name) = "address"
                        THEN AddrVal(SubSeq(out.data, 13, 32))
                        ELSE IntVal(FromBytes(SubSeq(out.data, 1, 32)))]

\* multicall.py:28-58  empty input returns []; otherwise partition and
\* initialise all_results with None.
MC_Begin ==
    /\ mc_pc = "start"
    /\ IF mc_calls = <<>>
       THEN /\ mc_pc' = "done"
            /\ mc_returned' = <<>>
            /\ UNCHANGED <<mc_reliable, mc_fragile, mc_all_results>>
       ELSE /\ mc_pc' = "reliable"
            /\ mc_reliable' = ReliableIndices(mc_calls)
            /\ mc_fragile' = FragileIndices(mc_calls)
            /\ mc_all_results' = [i \in 1..Len(mc_calls) |-> None]
            /\ UNCHANGED mc_returned
    /\ UNCHANGED <<mc_calls, mc_chain, mc_net_ok, mc_k>>
    /\ UNCHANGED notMcVars

\* multicall.py:60-70
MC_ReliableBatch ==
    /\ mc_pc = "reliable"
    /\ LET r == ReliableStep(mc_all_results, mc_calls, mc_reliable, mc_chain, mc_net_ok)
       IN  IF r.raised
           THEN /\ mc_pc' = "raised"
                /\ UNCHANGED mc_all_results
           ELSE /\ mc_pc' = "fragile"
                /\ mc_all_results' = r.all_results
    /\ mc_k' = 1
    /\ UNCHANGED <<mc_calls, mc_chain, mc_net_ok, mc_reliable, mc_fragile, mc_returned>>
    /\ UNCHANGED notMcVars

\* multicall.py:73-82  one iteration of the loop over potentially failing calls.
MC_FragileCall ==
    /\ mc_pc = "fragile"
    /\ mc_k <= Len(mc_fragile)
    /\ LET original_index == mc_fragile[mc_k]
           r == DirectCall(mc_chain, mc_calls[original_index])
       IN  mc_all_results' =
               IF r.raised THEN mc_all_results
               ELSE [mc_all_results EXCEPT ![original_index] = r.value]
    /\ mc_k' = mc_k + 1
    /\ UNCHANGED <<mc_pc, mc_calls, mc_chain, mc_net_ok, mc_reliable, mc_fragile, mc_returned>>
    /\ UNCHANGED notMcVars

\* multicall.py:84-86
MC_Return ==
    /\ mc_pc = "fragile"
    /\ mc_k > Len(mc_fragile)
    /\ mc_pc' = "done"
    /\ mc_returned' = mc_all_results
    /\ UNCHANGED <<mc_calls, mc_chain, mc_net_ok, mc_reliable, mc_fragile,
                   mc_all_results, mc_k>>
    /\ UNCHANGED notMcVars

MCIdle ==
    /\ mc_pc = "idle"
    /\ mc_calls = <<>>
    /\ mc_chain = [lp_token |-> Revert, totalSupply |-> Revert, factory |-> Revert]
    /\ mc_net_ok = TRUE
    /\ mc_reliable = <<>>
    /\ mc_fragile = <<>>
    /\ mc_all_results = <<>>
    /\ mc_k = 1
    /\ mc_returned = <<>>

MCInit ==
    /\ mc_pc = "start"
    /\ mc_calls \in SeqsUpTo(CallSpecs, MaxCalls)
    /\ mc_chain \in ChainStates
    /\ mc_net_ok \in BOOLEAN
    /\ mc_reliable = <<>>
    /\ mc_fragile = <<>>
    /\ mc_all_results = <<>>
    /\ mc_k = 1
    /\ mc_returned = <<>>

MCNext == MC_Begin \/ MC_ReliableBatch \/ MC_FragileCall \/ MC_Return

(***************************************************************************)
(* services/verify_gauge.py                                                *)
(***************************************************************************)
\* Largest measured time.time() - start_time, in whole seconds.
MaxElapsed == 1

StrVal(s) == [t |-> "str", v |-> s]
\* HexBytes, the bytes subclass web3.eth.get_code returns.
HexBytes(bs) == [t |-> "HexBytes", v |-> bs]

\* Python ==: values of different types are never equal (bytes vs str).
PyEq(x, y) == x.t = y.t /\ x.v = y.v

\* Python truthiness of None and str.
Truthy(x) == x.t = "str" /\ x.v # ""

\* Python `x or y`.
PyOr(x, y) == IF Truthy(x) THEN x ELSE y

\* Addresses of the model, each in lower-case and EIP-55 checksum form.
CANDIDATE == [lower |-> "0xd8b712d29381748db89c36bca0138d7c75866ddf",
              checksum |-> "0xd8b712d29381748dB89c36BCa0138d7c75866ddF"]
OTHER_GAUGE == [lower |-> "0xbfcf63294ad7105dea65aa58f8ae5be2d9d0952a",
                checksum |-> "0xbFcF63294aD7105dEa65aA58F8AE5BE2D9d0952A"]
LP_TOKEN == [lower |-> "0x06325440d014e39736583c165c2963ba99faf14e",
             checksum |-> "0x06325440D014e39736583c165C2963BA99fAf14E"]
UNTRUSTED_FACTORY == [lower |-> "0xb9fc157394af804a3578134a6585c0dc9cc990d4",
                      checksum |-> "0xB9fC157394Af804a3578134A6585C0dc9cc990d4"]
REGULAR_FACTORY == [lower |-> "0x6a8cbed756804b16e05e741edabd5cb544ae21bf",
                    checksum |-> "0x6A8cbed756804B16E05E741eDaBd5cB544AE21bf"]
\* Mixed case that is not the EIP-55 form of the candidate.
CANDIDATE_BAD_CASE == "0xD8b712d29381748db89c36bca0138d7c75866ddf"

\* constants.py:7-9  two of the provider wallets.
YEARN == [lower |-> "0xf147b8125d2ef93fb6965db97d6746952a133934",
          checksum |-> "0xF147b8125d2ef93FB6965Db97D6746952a133934"]
CONVEX == [lower |-> "0x989aeb4d175e16225e39e87d0d97a3360524ad80",
           checksum |-> "0x989AEb4d175e16225E39E87d0D97A3360524AD80"]

AddressBook ==
    {CANDIDATE, OTHER_GAUGE, LP_TOKEN, UNTRUSTED_FACTORY, REGULAR_FACTORY, YEARN, CONVEX}

\* web3.is_address: 40 hex digits, all lower case or a correct checksum.
IsAddress(s) == \E e \in AddressBook : s \in {e.lower, e.checksum}

\* web3.to_checksum_address
ToChecksumAddress(s) ==
    (CHOOSE e \in AddressBook : s \in {e.lower, e.checksum}).checksum

\* str.lower() of an address string.
Lower(s) ==
    IF s = CANDIDATE_BAD_CASE THEN CANDIDATE.lower
    ELSE IF IsAddress(s)
    THEN (CHOOSE e \in AddressBook : s \in {e.lower, e.checksum}).lower
    ELSE s

\* verify_gauge.py:19-25
TRUSTED_FACTORIES ==
    {"0x6A8cbed756804B16E05E741eDaBd5cB544AE21bf",
     "0xabC000d88f23Bb45525E447528DBF656A9D55bf5",
     "0xeF672bD94913CB6f1d2812a6e18c1fFdEd8eFf5c",
     "0x98EE851a00abeE0d95D08cF4CA2BdCE32aeaAF7F",
     "0x306A45a1478A000dC701A6e1f7a569afb8D9DCD6"}

\* The message literals of verify_gauge; a message is the sequence of the
\* pieces of its (f-)string.
MSG_NO_ADDRESS == <<"No address parameter given.">>
MSG_INVALID_ADDRESS == <<"Invalid Ethereum address.">>
MSG_NOT_CONTRACT == <<"Supplied address is not a valid contract.">>
MSG_UNTRUSTED == <<"Factory used to deploy this is not found on trusted list.">>
\* Faulty variant: a failed factory() call is reported as an untrusted factory.
MSG_FACTORY_REVERTED_Untrusted == MSG_UNTRUSTED

MSG_FACTORY_REVERTED ==
    <<"Contract call to discover factory reverted. Ensure you provide a factory deployed gauge.">>
MSG_LATEST_FACTORY ==
    <<"Contract call reverted. This likely means that the supplied address is not a valid gauge from the latest factory.">>
MSG_LP_VERIFIED == <<"This is a verified factory deployed LP gauge.">>
MSG_VERIFIED == <<"This is a verified factory deployed gauge.">>
MSG_REPORTED_INVALID == <<"The factory reports this gauge as invalid.">>

\* Faulty variant: the measured time is formatted into the message, as it is into the log line.
MismatchMessage_Timed(gauge_address, address, elapsed) ==
    <<"Factory address for this pool does not match supplied address. Expected ",
      gauge_address, ", got ", address, " in ", ToString(elapsed), "s">>

\* verify_gauge.py:94-96  the mismatch f-string; elapsed only reaches the log.
MismatchMessage(gauge_address, address, elapsed) ==
    <<"Factory address for this pool does not match supplied address. Expected ",
      gauge_address, ", got ", address>>

\* The timing key of the response: absent, or {"total_seconds": n}.
NoTiming == [present |-> FALSE, total_seconds |-> 0]
Timing(n) == [present |-> TRUE, total_seconds |-> n]

\* verify_gauge.py:29
NewResponse == [is_valid |-> FALSE, message |-> <<"">>, timing |-> NoTiming]

\* Outcome of one RPC call: ok with a value, a revert, or a node error.
Ok(v) == [status |-> "ok", value |-> v]
Failed(kind, v) == [status |-> kind, value |-> v]

\* Chain states: an address without code answers no call; returned addresses
\* come in the form the client library renders them.
VGChainStates ==
    {c \in [get_code : {Failed("error", HexBytes(<<>>)), Ok(HexBytes(<<>>)),
                        Ok(HexBytes(<<96, 128>>))},
            factory : {Failed("revert", ""), Failed("error", ""),
                       Ok(REGULAR_FACTORY.checksum), Ok(REGULAR_FACTORY.lower),
                       Ok(UNTRUSTED_FACTORY.checksum)},
            lp_token : {Failed("revert", ""), Failed("error", ""),
                        Ok(LP_TOKEN.checksum)},
            get_gauge : {Failed("revert", ""), Failed("error", ""),
                         Ok(CANDIDATE.checksum), Ok(CANDIDATE.lower),
                         Ok(OTHER_GAUGE.checksum)},
            is_valid_gauge : {Failed("revert", FALSE), Failed("error", FALSE),
                              Ok(TRUE), Ok(FALSE)}] :
        (c.get_code.status = "ok" /\ c.get_code.value.v = <<>>)
            => (c.factory.status # "ok" /\ c.lp_token.status # "ok")}

VGRequests ==
    [a : {None, StrVal(""), StrVal("not-an-address"), StrVal(CANDIDATE.lower),
          StrVal(CANDIDATE.checksum), StrVal(CANDIDATE_BAD_CASE)},
     address : {None, StrVal(CANDIDATE.lower)}]

\* Faulty variant: is_valid_contract without its try/except.
IsValidContract_NoCatch(out) ==
    IF out.status # "ok" THEN [raised |-> TRUE, value |-> FALSE]
    ELSE [raised |-> FALSE,
          value |-> ~PyEq(out.value, StrVal("0x")) /\ ~PyEq(out.value, StrVal("0x0"))]

\* verify_gauge.py:159-166  is_valid_contract: the code is compared with the
\* strings '0x' and '0x0'; an exception of get_code gives False.
IsValidContract(out) ==
    IF out.status # "ok" THEN [raised |-> FALSE, value |-> FALSE]
    ELSE [raised |-> FALSE,
          value |-> ~PyEq(out.value, StrVal("0x")) /\ ~PyEq(out.value, StrVal("0x0"))]

\* Faulty variant: any non-empty factory address passes.
IsTrustedFactory_Any(factory_address) == factory_address # ""

\* Faulty variant: the list is searched ignoring letter case.
IsTrustedFactory_CaseBlind(factory_address) ==
    \E f \in TRUSTED_FACTORIES : Lower(f) = Lower(factory_address)

\* verify_gauge.py:59  membership in the list, by string equality.
IsTrustedFactory(factory_address) == factory_address \in TRUSTED_FACTORIES

\* Faulty variant: the addresses are compared as they are.
AddressesDiffer_CaseSensitive(gauge_address, address) == gauge_address # address

\* verify_gauge.py:93
AddressesDiffer(gauge_address, address) == Lower(gauge_address) # Lower(address)

\* Faulty variant: a reverted is_valid_gauge call is taken for an LP-less valid gauge.
NonLpResponse_RevertValid(response, out, elapsed) ==
    IF out.status # "ok" \/ out.value
    THEN [response EXCEPT !.is_valid = TRUE, !.message = MSG_VERIFIED,
                          !.timing = Timing(elapsed)]
    ELSE [response EXCEPT !.message = MSG_REPORTED_INVALID,
                          !.timing = Timing(elapsed)]

\* verify_gauge.py:109-135  the non-LP branch and the timing added before
\* the final return; the except path returns without timing.
NonLpResponse(response, out, elapsed) ==
    IF out.status # "ok"
    THEN [response EXCEPT !.message = MSG_LATEST_FACTORY]
    ELSE IF out.value
    THEN [response EXCEPT !.is_valid = TRUE, !.message = MSG_VERIFIED,
                          !.timing = Timing(elapsed)]
    ELSE [response EXCEPT !.message = MSG_REPORTED_INVALID,
                          !.timing = Timing(elapsed)]

\* verify_gauge.py:86-107,130-135  the LP branch and the timing added before
\* the final return; the mismatch and except paths return without timing.
LpResponse(response, out, address, elapsed) ==
    IF out.status # "ok"
    THEN [response EXCEPT !.message = MSG_LATEST_FACTORY]
    ELSE IF AddressesDiffer(out.value, address)
    THEN [response EXCEPT !.message = MismatchMessage(out.value, address, elapsed)]
    ELSE [response EXCEPT !.is_valid = TRUE, !.message = MSG_LP_VERIFIED,
                          !.timing = Timing(elapsed)]

Called(fn, target) == [fn |-> fn, target |-> target]

vgLocals == <<vg_address, vg_factory_address, vg_lp_token_address, vg_is_lp_gauge>>
vgInputs == <<vg_request, vg_chain, vg_run, vg_first>>

\* verify_gauge.py:28-43  read the address parameter and check its syntax.
VG_Start ==
    /\ vg_pc = "start"
    /\ LET address == PyOr(vg_request.a, vg_request.address)
       IN  IF ~Truthy(address) \/ PyEq(address, StrVal(""))
           THEN /\ vg_response' = [NewResponse EXCEPT !.message = MSG_NO_ADDRESS]
                /\ vg_pc' = "done"
                /\ UNCHANGED vg_address
           ELSE IF ~IsAddress(address.v)
           THEN /\ vg_response' = [NewResponse EXCEPT !.message = MSG_INVALID_ADDRESS]
                /\ vg_pc' = "done"
                /\ UNCHANGED vg_address
           ELSE /\ vg_response' = NewResponse
                /\ vg_address' = ToChecksumAddress(address.v)
                /\ vg_pc' = "contract_check"
    /\ UNCHANGED <<vg_factory_address, vg_lp_token_address, vg_is_lp_gauge, vg_calls>>
    /\ UNCHANGED vgInputs
    /\ UNCHANGED notVgVars

\* verify_gauge.py:45-50  is_valid_contract(web3, address).
VG_ContractCheck ==
    /\ vg_pc = "contract_check"
    /\ vg_calls' = Append(vg_calls, Called("get_code", vg_address))
    /\ LET r == IsValidContract(vg_chain.get_code)
       IN  IF r.raised
           THEN /\ vg_pc' = "raised"
                /\ UNCHANGED vg_response
           ELSE IF ~r.value
           THEN /\ vg_response' = [vg_response EXCEPT !.message = MSG_NOT_CONTRACT]
                /\ vg_pc' = "done"
           ELSE /\ vg_pc' = "factory_check"
                /\ UNCHANGED vg_response
    /\ UNCHANGED vgLocals
    /\ UNCHANGED vgInputs
    /\ UNCHANGED notVgVars

\* verify_gauge.py:52-68  the direct factory() call and the trust check.
VG_FactoryCheck ==
    /\ vg_pc = "factory_check"
    /\ vg_calls' = Append(vg_calls, Called("factory", vg_address))
    /\ LET out == vg_chain.factory
       IN  IF out.status # "ok"
           THEN /\ vg_response' = [vg_response EXCEPT !.message = MSG_FACTORY_REVERTED]
                /\ vg_pc' = "done"
                /\ UNCHANGED vg_factory_address
           ELSE /\ vg_factory_address' = out.value
                /\ IF ~IsTrustedFactory(out.value)
                   THEN /\ vg_response' = [vg_response EXCEPT !.message = MSG_UNTRUSTED]
                        /\ vg_pc' = "done"
                   ELSE /\ vg_pc' = "lp_probe"
                        /\ UNCHANGED vg_response
    /\ UNCHANGED <<vg_address, vg_lp_token_address, vg_is_lp_gauge>>
    /\ UNCHANGED vgInputs
    /\ UNCHANGED notVgVars

\* Faulty variant: a failed lp_token() probe still takes the LP branch.
VG_LpProbe_AlwaysLp ==
    /\ vg_pc = "lp_probe"
    /\ vg_calls' = Append(vg_calls, Called("lp_token", vg_address))
    /\ vg_is_lp_gauge' = TRUE
    /\ vg_lp_token_address' = vg_chain.lp_token.value
    /\ vg_pc' = "lp_branch"
    /\ UNCHANGED <<vg_address, vg_factory_address, vg_response>>
    /\ UNCHANGED vgInputs
    /\ UNCHANGED notVgVars

\* verify_gauge.py:70-82  the lp_token() probe chooses the branch.
VG_LpProbe ==
    /\ vg_pc = "lp_probe"
    /\ vg_calls' = Append(vg_calls, Called("lp_token", vg_address))
    /\ LET out == vg_chain.lp_token
       IN  IF out.status = "ok"
           THEN /\ vg_is_lp_gauge' = TRUE
                /\ vg_lp_token_address' = out.value
                /\ vg_pc' = "lp_branch"
           ELSE /\ vg_is_lp_gauge' = FALSE
                /\ vg_lp_token_address' = ""
                /\ vg_pc' = "non_lp_branch"
    /\ UNCHANGED <<vg_address, vg_factory_address, vg_response>>
    /\ UNCHANGED vgInputs
    /\ UNCHANGED notVgVars

\* verify_gauge.py:85-107,130-135  factory.get_gauge(lp_token_address).
VG_LpBranch ==
    /\ vg_pc = "lp_branch"
    /\ vg_calls' = Append(vg_calls, Called("get_gauge", vg_factory_address))
    /\ \E elapsed \in 0..MaxElapsed :
          vg_response' = LpResponse(vg_response, vg_chain.get_gauge, vg_address, elapsed)
    /\ vg_pc' = "done"
    /\ UNCHANGED vgLocals
    /\ UNCHANGED vgInputs
    /\ UNCHANGED notVgVars

\* verify_gauge.py:108-135  factory.is_valid_gauge(address).
VG_NonLpBranch ==
    /\ vg_pc = "non_lp_branch"
    /\ vg_calls' = Append(vg_calls, Called("is_valid_gauge", vg_factory_address))
    /\ \E elapsed \in 0..MaxElapsed :
          vg_response' = NonLpResponse(vg_response, vg_chain.is_valid_gauge, elapsed)
    /\ vg_pc' = "done"
    /\ UNCHANGED vgLocals
    /\ UNCHANGED vgInputs
    /\ UNCHANGED notVgVars

NoFirst == [is_valid |-> FALSE, message |-> <<"">>, timing |-> NoTiming, calls |-> <<>>]

\* A second request for the same address against the same chain state: a
\* new invocation with fresh locals.
VG_Again ==
    /\ vg_pc = "done"
    /\ vg_run = 1
    /\ vg_first' = [is_valid |-> vg_response.is_valid,
                    message |-> vg_response.message,
                    timing |-> vg_response.timing,
                    calls |-> vg_calls]
    /\ vg_run' = 2
    /\ vg_pc' = "start"
    /\ vg_calls' = <<>>
    /\ vg_address' = ""
    /\ vg_factory_address' = ""
    /\ vg_lp_token_address' = ""
    /\ vg_is_lp_gauge' = TRUE
    /\ UNCHANGED <<vg_request, vg_chain, vg_response>>
    /\ UNCHANGED notVgVars

VGIdle ==
    /\ vg_pc = "idle"
    /\ vg_request = [a |-> None, address |-> None]
    /\ vg_chain = [get_code |-> Failed("error", HexBytes(<<>>)),
                   factory |-> Failed("error", ""),
                   lp_token |-> Failed("error", ""),
                   get_gauge |-> Failed("error", ""),
                   is_valid_gauge |-> Failed("error", FALSE)]
    /\ vg_address = ""
    /\ vg_factory_address = ""
    /\ vg_lp_token_address = ""
    /\ vg_is_lp_gauge = TRUE
    /\ vg_response = NewResponse
    /\ vg_calls = <<>>
    /\ vg_run = 1
    /\ vg_first = NoFirst

VGInit ==
    /\ vg_pc = "start"
    /\ vg_request \in VGRequests
    /\ vg_chain \in VGChainStates
    /\ vg_address = ""
    /\ vg_factory_address = ""
    /\ vg_lp_token_address = ""
    /\ vg_is_lp_gauge = TRUE
    /\ vg_response = NewResponse
    /\ vg_calls = <<>>
    /\ vg_run = 1
    /\ vg_first = NoFirst

VGStep ==
    \/ VG_Start
    \/ VG_ContractCheck
    \/ VG_FactoryCheck
    \/ VG_LpProbe
    \/ VG_LpBranch
    \/ VG_NonLpBranch

VGNext == VGStep \/ VG_Again

(***************************************************************************)
(* services/boost.py                                                       *)
(***************************************************************************)
\* Most wallets handed to get_boosts_batch in one request.
MaxWallets == 2

\* Python floats, kept as exact fractions <<numerator, denominator>> in
\* lowest terms (ints that enter float arithmetic are converted the same way).
RECURSIVE GCD(_, _)
GCD(a, b) == IF b = 0 THEN a ELSE GCD(b, a % b)

Float(n, d) == [t |-> "float", v |-> <<n \div GCD(n, d), d \div GCD(n, d)>>]
FloatLess(x, y) == x.v[1] * y.v[2] < y.v[1] * x.v[2]
FloatMul(x, y) == Float(x.v[1] * y.v[1], x.v[2] * y.v[2])
FloatDiv(x, y) == Float(x.v[1] * y.v[2], x.v[2] * y.v[1])
\* Python max(x, y) and min(x, y).
PyMax(x, y) == IF FloatLess(x, y) THEN y ELSE x
PyMin(x, y) == IF FloatLess(y, x) THEN y ELSE x

\* constants.py:13-14
MAX_BOOST == Float(5, 2)
PER_MAX_BOOST == FloatDiv(Float(1, 1), MAX_BOOST)

\* The wallet strings a request may carry.
WalletStrings ==
    {YEARN.lower, YEARN.checksum, CONVEX.checksum, "not-an-address"}
SameWallet(s, u) == Lower(s) = Lower(u)

\* A request names each wallet once.
WalletLists ==
    {ws \in SeqsUpTo(WalletStrings, MaxWallets) :
        \A i, j \in 1..Len(ws) : i # j => ~SameWallet(ws[i], ws[j])}

\* The gauge's raw answers: totalSupply(), and working_balances(w) and
\* balanceOf(w) for each wallet.
BoostChainStates ==
    [totalSupply : {Revert, Returns(<<>>), Returns(UintWord(0)), Returns(UintWord(10))},
     working_balances : [{YEARN.checksum, CONVEX.checksum} ->
        {Returns(<<>>), Returns(UintWord(0)), Returns(UintWord(3)), Returns(UintWord(9))}],
     balanceOf : [{YEARN.checksum, CONVEX.checksum} ->
        {Returns(<<>>), Returns(UintWord(0)), Returns(UintWord(5))}]]

\* multicall.py:73-82  the loop over the potentially failing calls.
RECURSIVE FragileLoop(_, _, _, _, _)
FragileLoop(all_results, calls, indices, k, chain) ==
    IF k > Len(indices) THEN all_results
    ELSE LET r == DirectCall(chain, calls[indices[k]])
         IN  FragileLoop(IF r.raised THEN all_results
                         ELSE [all_results EXCEPT ![indices[k]] = r.value],
                         calls, indices, k + 1, chain)

\* multicall.py:16-86  batch_calls as one call: raised, or the result list.
BatchCalls(calls, chain, net_ok) ==
    IF calls = <<>> THEN [raised |-> FALSE, results |-> <<>>]
    ELSE LET r == ReliableStep([i \in 1..Len(calls) |-> None], calls,
                               ReliableIndices(calls), chain, net_ok)
         IN  IF r.raised THEN [raised |-> TRUE, results |-> <<>>]
             ELSE [raised |-> FALSE,
                   results |-> FragileLoop(r.all_results, calls,
                                           FragileIndices(calls), 1, chain)]

\* A dict as a function on its keys; {} is the empty function.
EmptyDict == <<>>
Put(d, k, val) == [x \in DOMAIN d \cup {k} |-> IF x = k THEN val ELSE d[x]]

\* boost.py:103-106 and 128  the entry without a boost.
NullEntry ==
    [boost |-> None, pct_of_total_supply |-> Float(0, 1), gauge_balance |-> None]

\* Faulty variant: the boost ratio is returned without clamping.
ClampBoost_Unclamped(boost) == boost

\* boost.py:116  min(max(boost, 1.0), MAX_BOOST)
ClampBoost(boost) == PyMin(PyMax(boost, Float(1, 1)), MAX_BOOST)

\* Faulty variant: a wallet without balance gets boost 0.
BoostOf_ZeroForEmpty(working_balance, gauge_balance) ==
    IF gauge_balance.v = 0 THEN Float(0, 1)
    ELSE ClampBoost(FloatDiv(Float(working_balance.v, 1),
                             FloatMul(PER_MAX_BOOST, Float(gauge_balance.v, 1))))

\* boost.py:112-116
BoostOf(working_balance, gauge_balance) ==
    IF gauge_balance.v = 0 THEN Float(1, 1)
    ELSE ClampBoost(FloatDiv(Float(working_balance.v, 1),
                             FloatMul(PER_MAX_BOOST, Float(gauge_balance.v, 1))))

\* Faulty variant: the share is left as a fraction of 1.
BoostEntry_Fraction(working_balance, gauge_balance, total_supply) ==
    IF \/ working_balance = None
       \/ gauge_balance = None
       \/ total_supply = None
       \/ total_supply.v = 0
    THEN NullEntry
    ELSE [boost |-> BoostOf(working_balance, gauge_balance),
          pct_of_total_supply |->
              FloatDiv(Float(gauge_balance.v, 1), Float(total_supply.v, 1)),
          gauge_balance |-> gauge_balance]

\* boost.py:101-122  the entry of one wallet.
BoostEntry(working_balance, gauge_balance, total_supply) ==
    IF \/ working_balance = None
       \/ gauge_balance = None
       \/ total_supply = None
       \/ total_supply.v = 0
    THEN NullEntry
    ELSE [boost |-> BoostOf(working_balance, gauge_balance),
          pct_of_total_supply |->
              FloatMul(FloatDiv(Float(gauge_balance.v, 1), Float(total_supply.v, 1)),
                       Float(100, 1)),
          gauge_balance |-> gauge_balance]

\* boost.py:92-124  the loop filling boosts.
RECURSIVE BuildBoosts(_, _, _, _)
BuildBoosts(boosts, normalized_addresses, results, i) ==
    IF i > Len(normalized_addresses) THEN boosts
    ELSE BuildBoosts(
            Put(boosts, normalized_addresses[i],
                BoostEntry(results[2 * i], results[2 * i + 1], results[1])),
            normalized_addresses, results, i + 1)

\* Faulty variant: the except path returns an empty dict.
FailureResult_Empty(wallet_addresses) == EmptyDict

\* boost.py:126-128  the except path: one null entry per input string.
RECURSIVE FailureResult(_)
FailureResult(wallet_addresses) ==
    IF wallet_addresses = <<>> THEN EmptyDict
    ELSE Put(FailureResult(SubSeq(wallet_addresses, 1, Len(wallet_addresses) - 1)),
             wallet_addresses[Len(wallet_addresses)], NullEntry)

\* web3.to_checksum_address raises for a string that is no hex address.
ChecksumRaises(s) == ~(IsAddress(s) \/ s = CANDIDATE_BAD_CASE)

\* boost.py:70-83  totalSupply once, then two calls per wallet.
RECURSIVE BoostCalls(_, _, _)
BoostCalls(gauge_address, normalized_addresses, i) ==
    IF i > Len(normalized_addresses) THEN <<>>
    ELSE <<[address |-> gauge_address, function_name |-> "working_balances",
            args |-> <<normalized_addresses[i]>>],
           [address |-> gauge_address, function_name |-> "balanceOf",
            args |-> <<normalized_addresses[i]>>]>>
         \o BoostCalls(gauge_address, normalized_addresses, i + 1)

\* boost.py:54-128  get_boosts_batch.
GetBoostsBatch(wallet_addresses, gauge_address, chain, net_ok) ==
    IF \/ ChecksumRaises(gauge_address)
       \/ \E i \in 1..Len(wallet_addresses) : ChecksumRaises(wallet_addresses[i])
    THEN FailureResult(wallet_addresses)
    ELSE LET gauge == ToChecksumAddress(gauge_address)
             normalized_addresses ==
                 [i \in 1..Len(wallet_addresses) |->
                     ToChecksumAddress(wallet_addresses[i])]
             calls == <<[address |-> gauge, function_name |-> "totalSupply",
                         args |-> <<>>]>>
                      \o BoostCalls(gauge, normalized_addresses, 1)
             got == BatchCalls(calls, chain, net_ok)
         IN  IF got.raised THEN FailureResult(wallet_addresses)
             ELSE BuildBoosts(EmptyDict, normalized_addresses, got.results, 1)

\* boost.py:21-52  get_boost: two direct calls on the gauge; None when an
\* address is rejected or a call raises.
GetBoost(wallet_address, gauge_address, chain, net_ok) ==
    IF ChecksumRaises(wallet_address) \/ ChecksumRaises(gauge_address) \/ ~net_ok
    THEN None
    ELSE LET wallet == ToChecksumAddress(wallet_address)
             gauge == ToChecksumAddress(gauge_address)
             working_balance ==
                 DirectCall(chain, [address |-> gauge, function_name |-> "working_balances",
                                    args |-> <<wallet>>])
             gauge_balance ==
                 DirectCall(chain, [address |-> gauge, function_name |-> "balanceOf",
                                    args |-> <<wallet>>])
         IN  IF working_balance.raised \/ gauge_balance.raised THEN None
             ELSE IF gauge_balance.value.v = 0 THEN Float(1, 1)
             ELSE PyMin(PyMax(FloatDiv(Float(working_balance.value.v, 1),
                                       FloatMul(PER_MAX_BOOST,
                                                Float(gauge_balance.value.v, 1))),
                              Float(1, 1)),
                        MAX_BOOST)

\* One request to get_boosts_batch.
BS_GetBoostsBatch ==
    /\ bs_pc = "start"
    /\ bs_result' = GetBoostsBatch(bs_wallets, bs_gauge, bs_chain, bs_net_ok)
    /\ bs_pc' = "done"
    /\ UNCHANGED <<bs_wallets, bs_gauge, bs_chain, bs_net_ok, bs_boost>>
    /\ UNCHANGED notBsVars

\* The same wallet and gauge are then asked of get_boost.
BS_GetBoost ==
    /\ bs_pc = "done"
    /\ bs_wallets # <<>>
    /\ bs_boost' = GetBoost(bs_wallets[1], bs_gauge, bs_chain, bs_net_ok)
    /\ bs_pc' = "compared"
    /\ UNCHANGED <<bs_wallets, bs_gauge, bs_chain, bs_net_ok, bs_result>>
    /\ UNCHANGED notBsVars

BSIdle ==
    /\ bs_pc = "idle"
    /\ bs_wallets = <<>>
    /\ bs_gauge = ""
    /\ bs_chain = [totalSupply |-> Revert,
                   working_balances |-> [w \in {YEARN.checksum, CONVEX.checksum} |-> Returns(<<>>)],
                   balanceOf |-> [w \in {YEARN.checksum, CONVEX.checksum} |-> Returns(<<>>)]]
    /\ bs_net_ok = TRUE
    /\ bs_result = EmptyDict
    /\ bs_boost = None

BSInit ==
    /\ bs_pc = "start"
    /\ bs_wallets \in WalletLists
    /\ bs_gauge \in {CANDIDATE.lower, "not-an-address"}
    /\ bs_chain \in BoostChainStates
    /\ bs_net_ok \in BOOLEAN
    /\ bs_result = EmptyDict
    /\ bs_boost = None

BSNext == BS_GetBoostsBatch \/ BS_GetBoost

(***************************************************************************)
(* services/gauge_info.py: the gauge data cache                            *)
(***************************************************************************)
\* Clock: time.time() at service start, seconds per tick, ticks modelled.
StartTime == 1000
TickSeconds == 50
MaxTicks == 2
\* Most cache lookups counted by _cache_hits + _cache_misses.
MaxRequests == 2

\* gauge_info.py:25
CACHE_EXPIRATION_SECONDS == 100

\* A gauge-data payload: a dict, kept as its set of gauge keys.
Dict(keys) == [t |-> "dict", v |-> keys]
EmptyMap == Dict({})
\* The snapshot file and the API each deliver a payload of their own.
LocalPayload == Dict({"g1"})
ApiPayload == Dict({"g1", "g2"})
Payloads == {LocalPayload, ApiPayload}
\* Python truthiness of a dict or None.
DictTruthy(d) == d # None /\ d.v # {}

\* What the snapshot file holds when it is read.
LocalFiles ==
    {[kind |-> "missing", data |-> None],
     [kind |-> "unparsable", data |-> None],
     [kind |-> "data", data |-> EmptyMap]}
    \cup {[kind |-> "data", data |-> LocalPayload]}

\* What the remote API does when it is called.
ApiAnswers ==
    {[kind |-> k, data |-> None] :
        k \in {"network_error", "timeout", "success_false"}}
    \cup {[kind |-> "success", data |-> d] : d \in {None, EmptyMap, ApiPayload}}

\* gauge_info.py:62-133  _get_local_curve_data: the gauge dict, or None.
GetLocalCurveData(file) == IF file.kind = "data" THEN file.data ELSE None

\* Faulty variant: the cache is never trusted.
IsCacheValid_Never(cache, timestamp, now) == FALSE

\* gauge_info.py:45-60  _is_cache_valid
IsCacheValid(cache, timestamp, now) ==
    cache # None /\ now - timestamp < CACHE_EXPIRATION_SECONDS

\* The cache fields of the service object.
CacheState(cache, timestamp, hits, misses) ==
    [cache |-> cache, timestamp |-> timestamp, hits |-> hits, misses |-> misses]

\* Faulty variant: a failing source gives the 'no data' result.
StaleOrEmpty_Empty(st) ==
    [state |-> st, returned |-> EmptyMap, read_local |-> TRUE,
     called_api |-> TRUE, no_data |-> TRUE]

\* gauge_info.py:197-218  the stale cache if there is one, else {}.
StaleOrEmpty(st) ==
    [state |-> st,
     returned |-> IF st.cache # None THEN st.cache ELSE EmptyMap,
     read_local |-> TRUE, called_api |-> TRUE, no_data |-> st.cache = None]

\* Faulty variant: a failed attempt is remembered for a TTL period.
ApiFallback_FailureCached(st, now, api) ==
    IF api.kind = "success" /\ api.data # None
    THEN [state |-> [st EXCEPT !.cache = api.data, !.timestamp = now],
          returned |-> api.data, read_local |-> TRUE,
          called_api |-> TRUE, no_data |-> FALSE]
    ELSE StaleOrEmpty([st EXCEPT !.timestamp = now])

\* gauge_info.py:179-218  the API fallback of _fetch_all_gauges.  A success
\* envelope whose data is null is stored, then len() of it raises inside the
\* try and the handler of line 209 returns through the stale-cache test.
ApiFallback(st, now, api) ==
    IF api.kind = "success"
    THEN IF api.data = None
         THEN StaleOrEmpty([st EXCEPT !.cache = None, !.timestamp = now])
         ELSE [state |-> [st EXCEPT !.cache = api.data, !.timestamp = now],
               returned |-> api.data, read_local |-> TRUE,
               called_api |-> TRUE, no_data |-> FALSE]
    ELSE StaleOrEmpty(st)

\* Faulty variant: the API is asked although the file had data, and its
\* answer wins.
FetchAllGauges_ApiAlways(st, now, file, api) ==
    IF IsCacheValid(st.cache, st.timestamp, now)
    THEN [state |-> [st EXCEPT !.hits = @ + 1], returned |-> st.cache,
          read_local |-> FALSE, called_api |-> FALSE, no_data |-> FALSE]
    ELSE LET missed == [st EXCEPT !.misses = @ + 1]
             local_data == GetLocalCurveData(file)
         IN  ApiFallback(IF DictTruthy(local_data)
                         THEN [missed EXCEPT !.cache = local_data, !.timestamp = now]
                         ELSE missed,
                         now, api)

\* gauge_info.py:135-218  _fetch_all_gauges
FetchAllGauges(st, now, file, api) ==
    IF IsCacheValid(st.cache, st.timestamp, now)
    THEN [state |-> [st EXCEPT !.hits = @ + 1], returned |-> st.cache,
          read_local |-> FALSE, called_api |-> FALSE, no_data |-> FALSE]
    ELSE LET missed == [st EXCEPT !.misses = @ + 1]
             local_data == GetLocalCurveData(file)
         IN  IF DictTruthy(local_data)
             THEN [state |-> [missed EXCEPT !.cache = local_data, !.timestamp = now],
                   returned |-> local_data, read_local |-> TRUE,
                   called_api |-> FALSE, no_data |-> FALSE]
             ELSE ApiFallback(missed, now, api)

\* gauge_info.py:258-298  force_refresh_cache: the cache is dropped, the
\* file is read, and without file data _fetch_all_gauges runs (reading the
\* file once more).
ForceRefreshCache(st, now, file, file_again, api) ==
    LET dropped == [st EXCEPT !.cache = None, !.timestamp = 0]
        local_data == GetLocalCurveData(file)
    IN  IF DictTruthy(local_data)
        THEN [state |-> [dropped EXCEPT !.cache = local_data, !.timestamp = now],
              returned |-> local_data, read_local |-> TRUE,
              called_api |-> FALSE, no_data |-> FALSE]
        ELSE FetchAllGauges(dropped, now, file_again, api)

\* gauge_info.py:300-338  force_refresh_from_local
ForceRefreshFromLocal(st, now, file) ==
    LET dropped == [st EXCEPT !.cache = None, !.timestamp = 0]
        local_data == GetLocalCurveData(file)
    IN  [state |-> IF DictTruthy(local_data)
                   THEN [dropped EXCEPT !.cache = local_data, !.timestamp = now]
                   ELSE dropped,
         returned |-> None, read_local |-> TRUE, called_api |-> FALSE,
         no_data |-> FALSE]

\* Whether HOME_DIRECTORY is set and the snapshot file exists under it.
HomeStates == {"unset", "absent", "present"}

\* Faulty variant: a cached payload is always attributed to the API.
DataSource_Api(cache, home) == IF cache = None THEN "none" ELSE "external_api"

\* gauge_info.py:231-244  data_source: looked up from the file system when
\* the statistics are asked for.
DataSource(cache, home) ==
    IF cache = None \/ home = "unset" THEN "none"
    ELSE IF home = "present" THEN "local_file"
    ELSE "external_api"

\* gauge_info.py:340-357  force_clear_cache
ForceClearCache(st) == [st EXCEPT !.cache = None, !.timestamp = 0]

\* gauge_info.py:220-256  get_cache_stats
GetCacheStats(st, now, home) ==
    [has_cached_data |-> st.cache # None,
     data_source |-> DataSource(st.cache, home),
     cache_hits |-> st.hits,
     cache_misses |-> st.misses,
     gauge_count |-> IF st.cache # None THEN Cardinality(st.cache.v) ELSE 0]

\* What the last operation did, for the properties.
NoOperation ==
    [op |-> "none", before |-> CacheState(None, 0, 0, 0), at |-> 0,
     file |-> "not_read", api |-> "not_called", returned |-> None,
     no_data |-> FALSE, file_data |-> None, api_data |-> None]

NoHistory == [source |-> "none", gets |-> 0, cleared |-> FALSE]

Service == CacheState(gc_cache, gc_timestamp, gc_hits, gc_misses)

\* The service object takes the fields of an operation's outcome.
Becomes(out) ==
    /\ gc_cache' = out.state.cache
    /\ gc_timestamp' = out.state.timestamp
    /\ gc_hits' = out.state.hits
    /\ gc_misses' = out.state.misses
    /\ gc_ever_fetched' = (gc_ever_fetched \/ DictTruthy(out.state.cache))

Record(op, out, file, api) ==
    gc_last' = [op |-> op, before |-> Service, at |-> gc_now,
                file |-> IF out.read_local THEN file.kind ELSE "not_read",
                api |-> IF out.called_api THEN api.kind ELSE "not_called",
                returned |-> out.returned, no_data |-> out.no_data,
                file_data |-> IF out.read_local THEN GetLocalCurveData(file)
                              ELSE None,
                api_data |-> IF out.called_api THEN api.data ELSE None]

\* The source the payload cached after an operation was fetched from.
SourceAfter(out, api) ==
    IF out.state.cache = None THEN "none"
    ELSE IF ~out.read_local THEN gc_hist.source
    ELSE IF ~out.called_api THEN "local_file"
    ELSE IF api.kind = "success" THEN "external_api"
    ELSE gc_hist.source

\* A source that is not consulted has one (irrelevant) condition.
Consulted(out, file, api) ==
    /\ out.read_local \/ file.kind = "missing"
    /\ out.called_api \/ api.kind = "timeout"

\* One call of _fetch_all_gauges.
GC_Get ==
    /\ gc_pc = "ready"
    /\ gc_hits + gc_misses < MaxRequests
    /\ \E file \in LocalFiles, api \in ApiAnswers :
          LET out == FetchAllGauges(Service, gc_now, file, api)
          IN  /\ Consulted(out, file, api)
              /\ Becomes(out) /\ Record("get", out, file, api)
              /\ gc_hist' = [gc_hist EXCEPT !.source = SourceAfter(out, api),
                                            !.gets = @ + 1]
    /\ UNCHANGED <<gc_pc, gc_now>>
    /\ UNCHANGED <<gtVars, notGcVars>>

GC_ForceRefreshCache ==
    /\ gc_pc = "ready"
    /\ gc_hits + gc_misses < MaxRequests
    /\ \E file \in LocalFiles, file_again \in LocalFiles, api \in ApiAnswers :
          LET out == ForceRefreshCache(Service, gc_now, file, file_again, api)
          IN  /\ Consulted(out, file, api)
              /\ DictTruthy(GetLocalCurveData(file)) => file_again = file
              /\ ~DictTruthy(GetLocalCurveData(file_again)) =>
                    file_again.kind = "missing"
              /\ Becomes(out) /\ Record("force_refresh_cache", out, file, api)
              /\ gc_hist' = [gc_hist EXCEPT !.source = SourceAfter(out, api)]
    /\ UNCHANGED <<gc_pc, gc_now>>
    /\ UNCHANGED <<gtVars, notGcVars>>

GC_ForceRefreshFromLocal ==
    /\ gc_pc = "ready"
    /\ \E file \in LocalFiles :
          LET out == ForceRefreshFromLocal(Service, gc_now, file)
          IN  /\ Becomes(out)
              /\ Record("force_refresh_from_local", out, file,
                        [kind |-> "not_called", data |-> None])
              /\ gc_hist' = [gc_hist EXCEPT !.source =
                                SourceAfter(out, [kind |-> "not_called"])]
    /\ UNCHANGED <<gc_pc, gc_now>>
    /\ UNCHANGED <<gtVars, notGcVars>>

GC_ForceClearCache ==
    /\ gc_pc = "ready"
    /\ gc_cache # None
    /\ LET st == ForceClearCache(Service)
       IN  /\ gc_cache' = st.cache
           /\ gc_timestamp' = st.timestamp
    /\ gc_last' = [NoOperation EXCEPT !.op = "force_clear_cache",
                                      !.before = Service, !.at = gc_now]
    /\ gc_hist' = [gc_hist EXCEPT !.source = "none", !.cleared = TRUE]
    /\ UNCHANGED <<gc_pc, gc_hits, gc_misses, gc_now, gc_ever_fetched>>
    /\ UNCHANGED <<gtVars, notGcVars>>

GC_Stats ==
    /\ gc_pc = "ready"
    /\ \E home \in HomeStates :
          gc_last' = [NoOperation EXCEPT
                         !.op = "stats", !.before = Service, !.at = gc_now,
                         !.returned = GetCacheStats(Service, gc_now, home)]
    /\ UNCHANGED <<gc_pc, gc_cache, gc_timestamp, gc_hits, gc_misses, gc_now,
                   gc_ever_fetched, gc_hist>>
    /\ UNCHANGED <<gtVars, notGcVars>>

\* Time passes between operations.
GC_Tick ==
    /\ gc_pc = "ready"
    /\ gc_now < StartTime + MaxTicks * TickSeconds
    /\ gc_now' = gc_now + TickSeconds
    /\ UNCHANGED <<gc_pc, gc_cache, gc_timestamp, gc_hits, gc_misses, gc_last,
                   gc_ever_fetched, gc_hist>>
    /\ UNCHANGED <<gtVars, notGcVars>>

\* gauge_info.py:38-43  the cache fields after __init__.
GCFields ==
    /\ gc_cache = None
    /\ gc_timestamp = 0
    /\ gc_hits = 0
    /\ gc_misses = 0
    /\ gc_now = StartTime
    /\ gc_last = NoOperation
    /\ gc_ever_fetched = FALSE
    /\ gc_hist = NoHistory

GCIdle == gc_pc = "idle" /\ GCFields
GCInit == gc_pc = "ready" /\ GCFields

GCNext ==
    \/ GC_Get
    \/ GC_ForceRefreshCache
    \/ GC_ForceRefreshFromLocal
    \/ GC_ForceClearCache
    \/ GC_Stats
    \/ GC_Tick

(***************************************************************************)
(* Concurrent requests on the one GaugeInfoService object (routes.py:14).  *)
(* No lock is taken anywhere in gauge_info.py, so the statements of        *)
(* _fetch_all_gauges of two request threads interleave.                    *)
(***************************************************************************)
Threads == {"t1", "t2"}

\* gauge_info.py:142-150  the validity check and the hit/miss counters.
GT_Check(t) ==
    /\ gt_pc[t] = "start"
    /\ IF IsCacheValid(gc_cache, gc_timestamp, gc_now)
       THEN /\ gc_hits' = gc_hits + 1
            /\ gt_returned' = [gt_returned EXCEPT ![t] = gc_cache]
            /\ gt_pc' = [gt_pc EXCEPT ![t] = "done"]
            /\ UNCHANGED gc_misses
       ELSE /\ gc_misses' = gc_misses + 1
            /\ gt_pc' = [gt_pc EXCEPT ![t] = "local"]
            /\ UNCHANGED <<gc_hits, gt_returned>>
    /\ UNCHANGED <<gc_pc, gc_cache, gc_timestamp, gc_now, gc_last, gc_ever_fetched,
                   gc_hist>>
    /\ UNCHANGED notGcVars

\* gauge_info.py:153-174  the snapshot file is read and, if it has data,
\* replaces the cache.
GT_ReadLocal(t) ==
    /\ gt_pc[t] = "local"
    /\ \E file \in LocalFiles :
          LET local_data == GetLocalCurveData(file)
          IN  IF DictTruthy(local_data)
              THEN /\ gc_cache' = local_data
                   /\ gc_timestamp' = gc_now
                   /\ gc_ever_fetched' = TRUE
                   /\ gt_returned' = [gt_returned EXCEPT ![t] = local_data]
                   /\ gt_pc' = [gt_pc EXCEPT ![t] = "done"]
              ELSE /\ gt_pc' = [gt_pc EXCEPT ![t] = "api"]
                   /\ UNCHANGED <<gc_cache, gc_timestamp, gc_ever_fetched, gt_returned>>
    /\ UNCHANGED <<gc_pc, gc_hits, gc_misses, gc_now, gc_last, gc_hist>>
    /\ UNCHANGED notGcVars

\* gauge_info.py:179-218  the API is called and its answer handled.
GT_CallApi(t) ==
    /\ gt_pc[t] = "api"
    /\ \E api \in ApiAnswers :
          LET out == ApiFallback(Service, gc_now, api)
          IN  /\ Becomes(out)
              /\ gt_returned' = [gt_returned EXCEPT ![t] = out.returned]
    /\ gt_pc' = [gt_pc EXCEPT ![t] = "done"]
    /\ UNCHANGED <<gc_pc, gc_now, gc_last, gc_hist>>
    /\ UNCHANGED notGcVars

\* The thread serves its next request.
GT_NextRequest(t) ==
    /\ gt_pc[t] = "done"
    /\ gc_hits + gc_misses < MaxRequests
    /\ gt_pc' = [gt_pc EXCEPT ![t] = "start"]
    /\ gt_returned' = [gt_returned EXCEPT ![t] = None]
    /\ UNCHANGED gcVars
    /\ UNCHANGED notGcVars

GTIdle ==
    /\ gt_pc = [t \in Threads |-> "idle"]
    /\ gt_returned = [t \in Threads |-> None]

\* Two requests arrive at a service whose cache is empty or expired.
GTInit ==
    /\ gt_pc = [t \in Threads |-> "start"]
    /\ gt_returned = [t \in Threads |-> None]
    /\ gc_pc = "threads"
    /\ gc_now = StartTime
    /\ \/ gc_cache = None /\ gc_timestamp = 0 /\ gc_ever_fetched = FALSE
       \/ /\ gc_cache \in Payloads
          /\ gc_timestamp = StartTime - CACHE_EXPIRATION_SECONDS
          /\ gc_ever_fetched = TRUE
    /\ gc_hits = 0
    /\ gc_misses = 0
    /\ gc_last = NoOperation
    /\ gc_hist = NoHistory

GTNext ==
    \E t \in Threads :
        \/ GT_Check(t)
        \/ GT_ReadLocal(t)
        \/ GT_CallApi(t)
        \/ GT_NextRequest(t)

(***************************************************************************)
(* Specifications                                                          *)
(***************************************************************************)
InitMulticall == MCInit /\ VGIdle /\ BSIdle /\ GCIdle /\ GTIdle
SpecMulticall == InitMulticall /\ [][MCNext]_vars

InitVerify == MCIdle /\ VGInit /\ BSIdle /\ GCIdle /\ GTIdle
SpecVerify == InitVerify /\ [][VGNext]_vars

InitBoost == MCIdle /\ VGIdle /\ BSInit /\ GCIdle /\ GTIdle
SpecBoost == InitBoost /\ [][BSNext]_vars

InitCache == MCIdle /\ VGIdle /\ BSIdle /\ GCInit /\ GTIdle
SpecCache == InitCache /\ [][GCNext]_vars

InitCacheThreads == MCIdle /\ VGIdle /\ BSIdle /\ GTInit
SpecCacheThreads == InitCacheThreads /\ [][GTNext]_vars

Init == InitMulticall \/ InitVerify \/ InitBoost \/ InitCache \/ InitCacheThreads
Next == MCNext \/ VGNext \/ BSNext \/ GCNext \/ GTNext
Spec == Init /\ [][Next]_vars

(***************************************************************************)
(* Properties of batch_calls                                               *)
(***************************************************************************)
NamedLpToken(call) == call.function_name = "lp_token"

\* What calls[i] yields on its own: the library-decoded value of a direct
\* lp_token call, the codec's decoding of the sub-result otherwise.
OwnValue(chain, call) ==
    IF NamedLpToken(call) THEN DirectCall(chain, call).value
    ELSE DecodeResult(ChainOutcome(chain, call).data, OutputType(call.function_name))

\* The batched submission of the non-lp_token calls of the input fails.
ReliableSubmissionFails ==
    /\ \E j \in 1..Len(mc_calls) : ~NamedLpToken(mc_calls[j])
    /\ \/ ~mc_net_ok
       \/ \E j \in 1..Len(mc_calls) :
             ~NamedLpToken(mc_calls[j]) /\ ~ChainOutcome(mc_chain, mc_calls[j]).ok

\* The value of a non-lp_token call in a batch holding no lp_token call.
ValueWithoutFragile(call) ==
    IF ReliableSubmissionFails THEN None ELSE OwnValue(mc_chain, call)

\* C1: batch_calls returns exactly len(calls) elements and element i is None
\* or the value of calls[i], for every order of reliable and lp_token calls
\* and every set of failing calls.
C1_PositionsPreserved ==
    /\ mc_pc # "raised"
    /\ mc_pc = "done" =>
          /\ Len(mc_returned) = Len(mc_calls)
          /\ \A i \in 1..Len(mc_calls) :
                mc_returned[i] \in {None, OwnValue(mc_chain, mc_calls[i])}

\* C1 witness: a returned batch in which a reverted lp_token call precedes a
\* reliable call whose value is present.
C1_Witness ==
    /\ mc_pc = "done"
    /\ \E i, j \in 1..Len(mc_calls) :
          /\ i < j
          /\ NamedLpToken(mc_calls[i]) /\ ~mc_chain.lp_token.ok
          /\ mc_returned[i] = None
          /\ ~NamedLpToken(mc_calls[j])
          /\ mc_returned[j] # None
          /\ mc_returned[j] = OwnValue(mc_chain, mc_calls[j])

\* C2: when an lp_token call reverts its position is None and every reliable
\* position holds the value it has in a batch without lp_token calls.
C2_FragileRevertIsolated ==
    (/\ mc_pc = "done"
     /\ ~mc_chain.lp_token.ok
     /\ \E i \in 1..Len(mc_calls) : NamedLpToken(mc_calls[i]))
    => \A i \in 1..Len(mc_calls) :
          IF NamedLpToken(mc_calls[i])
          THEN mc_returned[i] = None
          ELSE mc_returned[i] = ValueWithoutFragile(mc_calls[i])

\* C2 witness: a reverted lp_token call next to two reliable calls that both
\* return their values.
C2_Witness ==
    /\ mc_pc = "done"
    /\ ~mc_chain.lp_token.ok
    /\ \E i, j, k \in 1..Len(mc_calls) :
          /\ NamedLpToken(mc_calls[i]) /\ mc_returned[i] = None
          /\ j # k
          /\ ~NamedLpToken(mc_calls[j]) /\ mc_returned[j] # None
          /\ ~NamedLpToken(mc_calls[k]) /\ mc_returned[k] # None

\* C3: when the batched submission of the reliable calls fails, batch_calls
\* raises nothing and returns None at every reliable position.
C3_BatchFailureAbsorbed ==
    ReliableSubmissionFails =>
        /\ mc_pc # "raised"
        /\ mc_pc = "done" =>
              \A j \in 1..Len(mc_calls) :
                  ~NamedLpToken(mc_calls[j]) => mc_returned[j] = None

\* C3 witness: the node request of the aggregate call errors, batch_calls
\* returns, and an lp_token call of the same batch still has its value.
C3_Witness ==
    /\ mc_pc = "done"
    /\ ~mc_net_ok
    /\ \E i, j \in 1..Len(mc_calls) :
          /\ ~NamedLpToken(mc_calls[j]) /\ mc_returned[j] = None
          /\ NamedLpToken(mc_calls[i]) /\ mc_returned[i] # None

(***************************************************************************)
(* Properties of verify_gauge                                              *)
(***************************************************************************)
Finished == vg_pc = "done"

\* The request and chain facts the verdict is decided by.
GivenParam == PyOr(vg_request.a, vg_request.address)
AddressGiven == Truthy(GivenParam)
AddressWellFormed == AddressGiven /\ IsAddress(GivenParam.v)
Candidate == ToChecksumAddress(GivenParam.v)
CodeAnswered == vg_chain.get_code.status = "ok"
NoCodeDeployed == CodeAnswered /\ vg_chain.get_code.value.v = <<>>
HasCode == CodeAnswered /\ vg_chain.get_code.value.v # <<>>
FactoryAnswered == vg_chain.factory.status = "ok"
FactoryInList == FactoryAnswered /\ vg_chain.factory.value \in TRUSTED_FACTORIES
LpTokenAnswered == vg_chain.lp_token.status = "ok"
GaugeConfirmed ==
    IF LpTokenAnswered
    THEN /\ vg_chain.get_gauge.status = "ok"
         /\ Lower(vg_chain.get_gauge.value) = Lower(Candidate)
    ELSE /\ vg_chain.is_valid_gauge.status = "ok"
         /\ vg_chain.is_valid_gauge.value

CallsOf(fns) == {i \in 1..Len(vg_calls) : vg_calls[i].fn \in fns}
Mentions(message, s) == \E i \in 1..Len(message) : message[i] = s
IsMismatchMessage(message) ==
    message[1] = "Factory address for this pool does not match supplied address. Expected "

\* The first check that fails, in the order address-given, address-syntax,
\* contract-code, factory, LP/non-LP confirmation.
FirstFailedCheck ==
    IF ~AddressGiven THEN "address-given"
    ELSE IF ~AddressWellFormed THEN "address-syntax"
    ELSE IF ~HasCode THEN "contract-code"
    ELSE IF ~FactoryInList THEN "factory"
    ELSE IF ~GaugeConfirmed THEN "confirmation"
    ELSE "none"

MessageNames(message, check) ==
    CASE check = "address-given" -> message = MSG_NO_ADDRESS
      [] check = "address-syntax" -> message = MSG_INVALID_ADDRESS
      [] check = "contract-code" -> message = MSG_NOT_CONTRACT
      [] check = "factory" -> message \in {MSG_UNTRUSTED, MSG_FACTORY_REVERTED}
      [] check = "confirmation" ->
            \/ message \in {MSG_LATEST_FACTORY, MSG_REPORTED_INVALID}
            \/ IsMismatchMessage(message)
      [] OTHER -> FALSE

\* C4: every result is either valid with a positive message, or invalid with
\* one non-empty message naming the first check that failed.
C4_TwoShapes ==
    Finished =>
        IF vg_response.is_valid
        THEN vg_response.message \in {MSG_LP_VERIFIED, MSG_VERIFIED}
        ELSE /\ vg_response.message # <<"">>
             /\ MessageNames(vg_response.message, FirstFailedCheck)

\* C5: a well-formed address with empty bytecode gets 'Supplied address is
\* not a valid contract.' and factory() is not called.
C5_NoCodeRejected ==
    (Finished /\ AddressWellFormed /\ NoCodeDeployed) =>
        /\ ~vg_response.is_valid
        /\ vg_response.message = MSG_NOT_CONTRACT
        /\ CallsOf({"factory"}) = {}

\* C6: a factory() result outside TRUSTED_FACTORIES gives is_valid = false
\* with the 'trusted list' message, and lp_token, get_gauge and
\* is_valid_gauge are not called.
C6_UntrustedFactoryRejected ==
    (Finished /\ AddressWellFormed /\ CodeAnswered /\ FactoryAnswered
        /\ vg_chain.factory.value \notin TRUSTED_FACTORIES) =>
        /\ ~vg_response.is_valid
        /\ vg_response.message = MSG_UNTRUSTED
        /\ CallsOf({"lp_token", "get_gauge", "is_valid_gauge"}) = {}

\* C6 witness: a deployed contract whose factory() answers an unlisted address.
C6_Witness ==
    /\ Finished /\ AddressWellFormed /\ HasCode
    /\ vg_chain.factory = Ok(UNTRUSTED_FACTORY.checksum)
    /\ vg_response.message = MSG_UNTRUSTED
    /\ Len(vg_calls) = 2

InLpBranch == AddressWellFormed /\ CodeAnswered /\ FactoryInList /\ LpTokenAnswered
InNonLpBranch == AddressWellFormed /\ CodeAnswered /\ FactoryInList /\ ~LpTokenAnswered

\* C7: in the LP branch the result is valid iff get_gauge succeeds and its
\* result equals the candidate ignoring case; a revert gives the 'latest
\* factory' message, a mismatch a message holding both addresses.
C7_LpBranchVerdict ==
    (Finished /\ InLpBranch) =>
        LET out == vg_chain.get_gauge
            same == out.status = "ok" /\ Lower(out.value) = Lower(Candidate)
        IN  /\ vg_response.is_valid <=> same
            /\ out.status # "ok" => vg_response.message = MSG_LATEST_FACTORY
            /\ (out.status = "ok" /\ ~same) =>
                  /\ Mentions(vg_response.message, out.value)
                  /\ Mentions(vg_response.message, Candidate)

\* C7 witness: get_gauge answers the candidate in another letter case and
\* the gauge is verified.
C7_Witness ==
    /\ Finished /\ InLpBranch
    /\ vg_chain.get_gauge.status = "ok"
    /\ vg_chain.get_gauge.value # vg_address
    /\ Lower(vg_chain.get_gauge.value) = Lower(vg_address)
    /\ vg_response.is_valid
    /\ CallsOf({"get_gauge"}) # {}

\* C8: in the non-LP branch the result is valid iff is_valid_gauge succeeds
\* and returns true; false gives 'The factory reports this gauge as
\* invalid.', a revert gives an invalid result.
C8_NonLpBranchVerdict ==
    (Finished /\ InNonLpBranch) =>
        LET out == vg_chain.is_valid_gauge
        IN  /\ vg_response.is_valid <=> (out.status = "ok" /\ out.value)
            /\ (out.status = "ok" /\ ~out.value) =>
                  vg_response.message = MSG_REPORTED_INVALID
            /\ out.status # "ok" => ~vg_response.is_valid

\* C8 witness: lp_token() reverted, is_valid_gauge reverted, and the result
\* is invalid.
C8_Witness ==
    /\ Finished /\ InNonLpBranch
    /\ vg_chain.lp_token.status = "revert"
    /\ vg_chain.is_valid_gauge.status = "revert"
    /\ ~vg_response.is_valid
    /\ CallsOf({"is_valid_gauge"}) # {}

\* C9: a second verification of the same address against the same chain
\* state issues the same calls and ends with the same is_valid and message.
C9_Deterministic ==
    (Finished /\ vg_run = 2) =>
        /\ vg_response.is_valid = vg_first.is_valid
        /\ vg_response.message = vg_first.message
        /\ vg_calls = vg_first.calls

\* C9 witness: both verifications found an address mismatch after four
\* calls.
C9_Witness ==
    /\ Finished /\ vg_run = 2
    /\ IsMismatchMessage(vg_response.message)
    /\ IsMismatchMessage(vg_first.message)
    /\ Len(vg_calls) = 4

\* C10: whatever each call does, verify_gauge raises nothing, can always
\* take its next step, and ends with an is_valid flag and a message.
C10_NoEscape ==
    /\ vg_pc # "raised"
    /\ vg_pc \in {"start", "contract_check", "factory_check", "lp_probe",
                  "lp_branch", "non_lp_branch"} => ENABLED VGStep
    /\ Finished =>
          /\ vg_response.is_valid \in BOOLEAN
          /\ vg_response.message # <<"">>

\* C10 witness: get_code failed with a node error and a result was returned.
C10_Witness ==
    /\ Finished /\ AddressWellFormed
    /\ vg_chain.get_code.status = "error"
    /\ vg_response.message = MSG_NOT_CONTRACT

(***************************************************************************)
(* Properties of get_boosts_batch                                          *)
(***************************************************************************)
BoostDone == bs_pc = "done"

\* The keys under which the entry of an input wallet may appear: the string
\* as given, or its checksummed form.
KeysFor(w) == {w} \cup (IF ChecksumRaises(w) THEN {} ELSE {ToChecksumAddress(w)})

\* The request reaches the aggregator and the aggregator answers.
RequestWellFormed ==
    /\ ~ChecksumRaises(bs_gauge)
    /\ \A i \in 1..Len(bs_wallets) : ~ChecksumRaises(bs_wallets[i])
AggregatorFailsEntirely ==
    /\ RequestWellFormed
    /\ ~bs_net_ok \/ ~bs_chain.totalSupply.ok
AggregatorAnswers == RequestWellFormed /\ bs_net_ok /\ bs_chain.totalSupply.ok

\* The three quantities of wallet i as the chain reports them.
WorkingBalance(i) ==
    DecodeResult(bs_chain.working_balances[ToChecksumAddress(bs_wallets[i])].data, "uint256")
RawBalance(i) ==
    DecodeResult(bs_chain.balanceOf[ToChecksumAddress(bs_wallets[i])].data, "uint256")
TotalSupply == DecodeResult(bs_chain.totalSupply.data, "uint256")
AllDecoded(i) ==
    /\ AggregatorAnswers
    /\ WorkingBalance(i) # None /\ RawBalance(i) # None /\ TotalSupply # None
    /\ TotalSupply.v > 0
EntryOf(i) == bs_result[ToChecksumAddress(bs_wallets[i])]

\* C11: get_boosts_batch returns exactly one entry per input wallet whatever
\* the batch did, and when the aggregator call fails entirely every entry is
\* {boost: null, pct_of_total_supply: 0}.
C11_OneEntryPerWallet ==
    BoostDone =>
        /\ Cardinality(DOMAIN bs_result) = Len(bs_wallets)
        /\ \A i \in 1..Len(bs_wallets) :
              Cardinality(DOMAIN bs_result \cap KeysFor(bs_wallets[i])) = 1
        /\ \A k \in DOMAIN bs_result :
              \E i \in 1..Len(bs_wallets) : k \in KeysFor(bs_wallets[i])
        /\ AggregatorFailsEntirely =>
              \A k \in DOMAIN bs_result :
                  /\ bs_result[k].boost = None
                  /\ bs_result[k].pct_of_total_supply = Float(0, 1)

C11_Witness ==
    /\ BoostDone /\ AggregatorFailsEntirely /\ ~bs_net_ok
    /\ Len(bs_wallets) = 2
    /\ \A k \in DOMAIN bs_result : bs_result[k].boost = None

\* C12: when working balance, raw balance and total supply all decode to
\* non-null values and total supply > 0, the wallet's boost lies in
\* [1.0, MAX_BOOST].
C12_BoostBounded ==
    BoostDone =>
        \A i \in 1..Len(bs_wallets) :
            AllDecoded(i) =>
                /\ EntryOf(i).boost # None
                /\ ~FloatLess(EntryOf(i).boost, Float(1, 1))
                /\ ~FloatLess(Float(5, 2), EntryOf(i).boost)

\* A wallet whose unclamped ratio 9 / (0.4 * 5) = 4.5 exceeds the maximum.
C12_Witness ==
    /\ BoostDone
    /\ \E i \in 1..Len(bs_wallets) :
          /\ AllDecoded(i)
          /\ WorkingBalance(i).v = 9 /\ RawBalance(i).v = 5
          /\ EntryOf(i).boost = Float(5, 2)

\* C13 as stated: a wallet whose raw balance is 0 gets
\* {boost: 1.0, pct_of_total_supply: 0}, regardless of its working balance.
C13_ZeroBalanceFloor_AsStated ==
    BoostDone =>
        \A i \in 1..Len(bs_wallets) :
            (AggregatorAnswers /\ RawBalance(i) = IntVal(0)) =>
                /\ EntryOf(i).boost = Float(1, 1)
                /\ EntryOf(i).pct_of_total_supply = Float(0, 1)

\* C13 (amended): when the working balance and the total supply decode to
\* non-null values and the total supply is > 0, a wallet whose raw balance
\* is 0 gets boost 1.0 and pct_of_total_supply 0, regardless of its working
\* balance.
C13_ZeroBalanceFloor ==
    BoostDone =>
        \A i \in 1..Len(bs_wallets) :
            (AllDecoded(i) /\ RawBalance(i) = IntVal(0)) =>
                /\ EntryOf(i).boost = Float(1, 1)
                /\ EntryOf(i).pct_of_total_supply = Float(0, 1)

C13_Witness ==
    /\ BoostDone
    /\ \E i \in 1..Len(bs_wallets) :
          /\ AllDecoded(i) /\ RawBalance(i) = IntVal(0)
          /\ WorkingBalance(i).v = 9
          /\ EntryOf(i).boost = Float(1, 1)

(***************************************************************************)
(* Properties of the result shape and of the aggregate decoder             *)
(***************************************************************************)
\* C18: every result verify_gauge returns, on every terminal path, carries
\* timing metadata next to is_valid and message.
C18_TimingOnEveryPath == Finished => vg_response.timing.present

\* The aggregate submission of the batch went through.
ReliableSubmissionAnswered ==
    /\ mc_pc = "done"
    /\ \E j \in 1..Len(mc_calls) : ~NamedLpToken(mc_calls[j])
    /\ ~ReliableSubmissionFails

\* C19: for a sub-result declared 'address' that is a 32-byte ABI word, the
\* aggregate decoder returns bytes 12..31 of the word as the address.
C19_AddressLow20Bytes ==
    ReliableSubmissionAnswered =>
        \A j \in 1..Len(mc_calls) :
            (/\ mc_calls[j].function_name = "factory"
             /\ Len(mc_chain.factory.data) = 32)
            => mc_returned[j] = AddrVal(SubSeq(mc_chain.factory.data, 13, 32))

\* C20: for a sub-result declared 'uint256' the aggregate decoder returns
\* the big-endian unsigned integer of the byte string, and null when the
\* byte string is empty or shorter than a 32-byte word.
C20_UintOrNull ==
    ReliableSubmissionAnswered =>
        \A j \in 1..Len(mc_calls) :
            mc_calls[j].function_name = "totalSupply" =>
                mc_returned[j] =
                    IF Len(mc_chain.totalSupply.data) < 32 THEN None
                    ELSE IntVal(FromBytes(mc_chain.totalSupply.data))

(***************************************************************************)
(* Properties of the gauge data cache                                      *)
(***************************************************************************)
LastGet == gc_last.op = "get"
\* Age of the cached payload when the last operation started.
AgeBefore == gc_last.at - gc_last.before.timestamp
HadPayload == gc_last.before.cache # None
CacheUntouched ==
    /\ gc_cache = gc_last.before.cache
    /\ gc_timestamp = gc_last.before.timestamp

\* C14: after a successful fetch, a _fetch_all_gauges call made while the
\* payload is younger than 100 s returns the cached payload and reads
\* neither the snapshot file nor the remote API.
C14_FreshServedFromCache ==
    (LastGet /\ HadPayload /\ AgeBefore < 100) =>
        /\ gc_last.returned = gc_last.before.cache
        /\ gc_last.file = "not_read"
        /\ gc_last.api = "not_called"
        /\ CacheUntouched

C14_Witness ==
    /\ LastGet /\ gc_last.before.cache \in Payloads
    /\ AgeBefore > 0 /\ AgeBefore < 100
    /\ gc_last.returned = gc_last.before.cache
    /\ gc_last.file = "not_read"

\* Both sources fail in one of the ways the claim lists.
BothSourcesFailed ==
    /\ gc_last.file \in {"missing", "unparsable"}
    /\ gc_last.api \in {"network_error", "timeout", "success_false"}
ExpiredAndFailed == LastGet /\ HadPayload /\ AgeBefore >= 100 /\ BothSourcesFailed

\* C15 as stated: with the cached payload expired and both sources failing,
\* _fetch_all_gauges returns the previously cached payload unchanged and
\* the result is not empty.
C15_StaleServed_AsStated ==
    ExpiredAndFailed =>
        /\ gc_last.returned = gc_last.before.cache
        /\ CacheUntouched
        /\ gc_last.returned # EmptyMap

\* C15 (amended): with the cached payload expired and both sources failing,
\* _fetch_all_gauges returns the previously cached payload unchanged and
\* not through the 'no data' return; the result is empty only if the cached
\* payload is itself empty.
C15_StaleServed ==
    ExpiredAndFailed =>
        /\ gc_last.returned = gc_last.before.cache
        /\ CacheUntouched
        /\ ~gc_last.no_data
        /\ gc_last.returned = EmptyMap => gc_last.before.cache = EmptyMap

C15_Witness ==
    /\ ExpiredAndFailed
    /\ gc_last.before.cache \in Payloads
    /\ gc_last.api = "timeout"
    /\ gc_last.returned = gc_last.before.cache

\* C16: get returns the 'no data' indicator only if no payload has ever
\* been fetched; once one has been, no later failure of the sources
\* replaces it with 'no data'.
C16_NoDataOnlyBeforeFirstFetch ==
    (LastGet /\ gc_last.no_data /\ ~gc_hist.cleared) => ~gc_ever_fetched

\* A thread is between its validity check and its replacement of the cache.
Refreshing(t) == gt_pc[t] \in {"local", "api"}

\* C17: the check-fetch-replace sequence is mutually exclusive: of two
\* requests that find the cache expired, at most one is fetching upstream.
C17_MutuallyExclusive ==
    \A t, u \in Threads : (t # u /\ Refreshing(t)) => ~Refreshing(u)

(***************************************************************************)
(* Further properties of verify_gauge                                      *)
(***************************************************************************)
FactoryCalled == CallsOf({"factory"}) # {}
LpTokenCalled == CallsOf({"lp_token"}) # {}

\* C21: when the candidate's factory() call fails, verify_gauge ends at once
\* with is_valid = false and the 'Contract call to discover factory
\* reverted' message, which is not the untrusted-factory message, and makes
\* no lp_token, get_gauge or is_valid_gauge call.
C21_FactoryFailureEnds ==
    (FactoryCalled /\ ~FactoryAnswered) =>
        /\ Finished
        /\ ~vg_response.is_valid
        /\ vg_response.message =
              <<"Contract call to discover factory reverted. Ensure you provide a factory deployed gauge.">>
        /\ vg_response.message #
              <<"Factory used to deploy this is not found on trusted list.">>
        /\ CallsOf({"lp_token", "get_gauge", "is_valid_gauge"}) = {}
        /\ vg_calls[Len(vg_calls)].fn = "factory"

\* C21 witness: a deployed contract whose factory() call fails with a node
\* error.
C21_Witness ==
    /\ Finished /\ HasCode /\ FactoryCalled
    /\ vg_chain.factory.status = "error"
    /\ vg_response.message = MSG_FACTORY_REVERTED
    /\ Len(vg_calls) = 2

\* C22: after the factory check passed, the lp_token() probe never ends the
\* verification by itself: its success is followed by exactly one get_gauge
\* call and no is_valid_gauge call, its failure by exactly one
\* is_valid_gauge call and no get_gauge call.
C22_ProbeSelectsBranch ==
    /\ (Finished /\ LpTokenCalled) =>
          /\ vg_calls[Len(vg_calls)].fn # "lp_token"
          /\ IF LpTokenAnswered
             THEN /\ Cardinality(CallsOf({"get_gauge"})) = 1
                  /\ CallsOf({"is_valid_gauge"}) = {}
             ELSE /\ Cardinality(CallsOf({"is_valid_gauge"})) = 1
                  /\ CallsOf({"get_gauge"}) = {}
    /\ CallsOf({"get_gauge"}) # {} => LpTokenAnswered
    /\ CallsOf({"is_valid_gauge"}) # {} => ~LpTokenAnswered
    /\ \A i \in CallsOf({"get_gauge", "is_valid_gauge"}) :
          i > 1 /\ vg_calls[i - 1].fn = "lp_token"

\* C22 witness: lp_token() reverted and is_valid_gauge was called once.
C22_Witness ==
    /\ Finished /\ LpTokenCalled
    /\ vg_chain.lp_token.status = "revert"
    /\ Cardinality(CallsOf({"is_valid_gauge"})) = 1
    /\ Len(vg_calls) = 4

\* C27: is_valid = true only if factory() returned a member of
\* TRUSTED_FACTORIES and that factory confirmed the candidate; get_gauge and
\* is_valid_gauge are never called on an address outside TRUSTED_FACTORIES.
C27_OnlyTrustedConfirms ==
    /\ (Finished /\ vg_response.is_valid) =>
          /\ FactoryInList
          /\ GaugeConfirmed
          /\ \E i \in CallsOf({"get_gauge", "is_valid_gauge"}) :
                vg_calls[i].target = vg_chain.factory.value
    /\ \A i \in CallsOf({"get_gauge", "is_valid_gauge"}) :
          vg_calls[i].target \in TRUSTED_FACTORIES

\* C27 witness: a non-LP gauge confirmed by is_valid_gauge of the listed
\* factory.
C27_Witness ==
    /\ Finished /\ vg_response.is_valid
    /\ ~LpTokenAnswered
    /\ \E i \in CallsOf({"is_valid_gauge"}) :
          vg_calls[i].target = REGULAR_FACTORY.checksum

(***************************************************************************)
(* Further properties of the boost calculator                              *)
(***************************************************************************)
\* What the batch hands to the per-wallet computation: nothing when the
\* aggregate submission failed, else the decoded answers.
Decoded(value) == IF AggregatorAnswers THEN value ELSE None

\* clamp(w / (PER_MAX_BOOST * r), 1.0, MAX_BOOST) with PER_MAX_BOOST = 2/5
\* and MAX_BOOST = 5/2, on integers w and r > 0.
ClampedRatio(w, r) ==
    IF 5 * w < 2 * r THEN Float(1, 1)
    ELSE IF 2 * w > 2 * r THEN Float(5, 2)
    ELSE Float(5 * w, 2 * r)

\* C25: per wallet, a null working balance, raw balance or total supply, or
\* a zero total supply, gives {boost: null, pct_of_total_supply: 0};
\* otherwise boost is the clamped ratio (1.0 for raw balance 0) and
\* pct_of_total_supply is 100 * raw_balance / total_supply.
C25_EntryFormula ==
    (BoostDone /\ RequestWellFormed) =>
        \A i \in 1..Len(bs_wallets) :
            LET w == Decoded(WorkingBalance(i))
                r == Decoded(RawBalance(i))
                s == Decoded(TotalSupply)
            IN  IF w = None \/ r = None \/ s = None \/ s = IntVal(0)
                THEN /\ EntryOf(i).boost = None
                     /\ EntryOf(i).pct_of_total_supply = Float(0, 1)
                ELSE /\ EntryOf(i).boost =
                          IF r.v = 0 THEN Float(1, 1) ELSE ClampedRatio(w.v, r.v)
                     /\ EntryOf(i).pct_of_total_supply = Float(100 * r.v, s.v)

\* C25 witness: working balance 3, raw balance 5 of a supply of 10 give
\* boost 1.5 and 50 percent.
C25_Witness ==
    /\ BoostDone
    /\ \E i \in 1..Len(bs_wallets) :
          /\ AllDecoded(i)
          /\ WorkingBalance(i).v = 3 /\ RawBalance(i).v = 5 /\ TotalSupply.v = 10
          /\ EntryOf(i).boost = Float(3, 2)
          /\ EntryOf(i).pct_of_total_supply = Float(50, 1)

\* Every call of the request answers a full word.
FullWord(out) == out.ok /\ Len(out.data) = 32
AllCallsSucceed ==
    /\ RequestWellFormed /\ bs_net_ok
    /\ FullWord(bs_chain.totalSupply)
    /\ \A i \in 1..Len(bs_wallets) :
          /\ FullWord(bs_chain.working_balances[ToChecksumAddress(bs_wallets[i])])
          /\ FullWord(bs_chain.balanceOf[ToChecksumAddress(bs_wallets[i])])

\* C28: when all calls succeed, get_boost(w, g) and the boost of w in
\* get_boosts_batch([w], g) are the same value, also for raw balance 0 and
\* for total supply 0.
C28_SingleEqualsBatch ==
    (bs_pc = "compared" /\ Len(bs_wallets) = 1 /\ AllCallsSucceed) =>
        bs_boost = EntryOf(1).boost

\* C30: whether or not the batch raised, the entry of an input wallet is
\* found by looking the result up with the wallet string that was passed in.
C30_SameKeyOnBothPaths ==
    BoostDone => \A i \in 1..Len(bs_wallets) : bs_wallets[i] \in DOMAIN bs_result

(***************************************************************************)
(* Further properties of the gauge data cache                              *)
(***************************************************************************)
\* The last operation was a get that found the cache empty or expired.
LastGetMissed ==
    /\ LastGet
    /\ gc_last.before.cache = None \/ AgeBefore >= 100
FileRead == gc_last.file # "not_read"
ApiCalled == gc_last.api # "not_called"
FileYielded == FileRead /\ gc_last.file_data # None /\ gc_last.file_data.v # {}
ApiYielded == ApiCalled /\ gc_last.api_data # None /\ gc_last.api_data.v # {}

\* C23: on a miss the snapshot file is consulted first and the API only if
\* the file yielded no data; the first source that yields data replaces the
\* payload and sets the timestamp to the current time; the miss counter
\* grows by exactly one.
C23_SourceOrder ==
    LastGetMissed =>
        /\ FileRead
        /\ ApiCalled <=> ~FileYielded
        /\ FileYielded =>
              /\ gc_cache = gc_last.file_data
              /\ gc_timestamp = gc_last.at
              /\ gc_last.returned = gc_last.file_data
        /\ (~FileYielded /\ ApiYielded) =>
              /\ gc_cache = gc_last.api_data
              /\ gc_timestamp = gc_last.at
              /\ gc_last.returned = gc_last.api_data
        /\ gc_misses = gc_last.before.misses + 1
        /\ gc_hits = gc_last.before.hits

\* C23 witness: an expired payload from the file is replaced by the API's
\* payload because the file has become unparsable.
C23_Witness ==
    /\ LastGetMissed
    /\ gc_last.before.cache = LocalPayload
    /\ gc_last.file = "unparsable"
    /\ gc_last.api = "success"
    /\ gc_cache = ApiPayload
    /\ gc_timestamp = gc_now

\* Every source failed on a miss and the stale payload was served.
StaleServed ==
    /\ LastGetMissed /\ HadPayload
    /\ FileRead /\ ~FileYielded
    /\ gc_last.api \in {"network_error", "timeout", "success_false"}
    /\ gc_last.returned = gc_last.before.cache

\* C24: when every source fails on a miss and the stale payload is served,
\* payload and timestamp are left as they were, so the next
\* _fetch_all_gauges call is a miss again and consults the sources.
C24_FailureNotCached ==
    [][StaleServed =>
          /\ CacheUntouched
          /\ ~IsCacheValid(gc_cache, gc_timestamp, gc_now)
          /\ (gc_last' # gc_last /\ gc_last'.op = "get") =>
                /\ gc_last'.file # "not_read"
                /\ gc_misses' = gc_misses + 1]_vars

\* C24 witness: a stale payload was served, and the get before it had been
\* a miss that stored the payload.
C24_Witness ==
    /\ StaleServed
    /\ gc_last.before.cache \in Payloads
    /\ gc_timestamp < gc_now
    /\ gc_misses = 2

\* C26: the data_source of get_cache_stats is the source the cached payload
\* was fetched from, and 'none' only when nothing is cached.
C26_ReportedSourceIsActual ==
    gc_last.op = "stats" =>
        /\ gc_last.returned.data_source = gc_hist.source
        /\ gc_last.returned.data_source = "none" <=> gc_cache = None

\* C29: cache_hits + cache_misses is the number of gets callers requested;
\* the admin operations leave both counters as they were.
C29_CountersCountGets ==
    /\ gc_hits + gc_misses = gc_hist.gets
    /\ gc_last.op \in {"force_refresh_cache", "force_refresh_from_local",
                       "force_clear_cache", "stats"} =>
          /\ gc_hits = gc_last.before.hits
          /\ gc_misses = gc_last.before.misses
====
